---- MODULE Spec2Model ----
(***************************************************************************)
(* Model of the reservation ordering page (script.js) and of the kitchen   *)
(* display (display.js), which share the localStorage key "orders".        *)
(*                                                                         *)
(* A JavaScript string is a sequence of one-character strings, so that     *)
(* trimming is computed.  The text stored under a localStorage key is the  *)
(* sequence of JSON tokens of that text (punctuation, property names,      *)
(* string literals, numbers; commas and colons are left out), so that      *)
(* JSON.stringify and JSON.parse are computed and parse may fail.  An      *)
(* object with insertion-ordered keys (order.items, the batch summary) is  *)
(* the sequence of its entries in insertion order.                         *)
(*                                                                         *)
(* A UI event callback runs to completion in its page: no other callback   *)
(* of that page runs before it ends.  The pages (ordering pages in their   *)
(* tabs, the kitchen display) run independently of one another and share   *)
(* only localStorage, without a lock: a callback is one action up to its   *)
(* last access to the shared key and, when it reads the key "orders" and   *)
(* then writes it (the submit callback), a second action for the write, so *)
(* that the other pages may read and write between the two.  init() of the *)
(* ordering page is an action for each of its awaits.                      *)
(***************************************************************************)
EXTENDS Integers, Sequences, FiniteSets, TLC

VARIABLES
    stored,          \* localStorage.getItem("orders"): [has, text]
    currentOrder,    \* script.js `currentOrder`, per open ordering page
    orders,          \* script.js `orders`, per open ordering page
    displayOrders,   \* display.js `orders`
    summary,         \* the mapping last rendered into #batch-summary
    orderMessage,    \* textContent of #order-message, per ordering page
    submitted,       \* history: the orders saved by a submit, oldest first
    last,            \* history: the callback or the function that ran last
    menuFile,        \* what fetch("listofitems.txt") gives: [ok, text]
    storedCustom,    \* localStorage.getItem("customItems"): [has, text]
    items,           \* script.js `items`, per open ordering page
    customItems,     \* script.js `customItems`, per open ordering page
    added,           \* history: the custom items added, oldest first
    pending,         \* per ordering page: what init() awaits ("fetch", then
                     \* "text") and the answer to its fetch of the menu file;
                     \* Null when init() has ended
    handlers,        \* per ordering page: init() has attached its handlers
    running,         \* per ordering page: what the loadOrders() of its submit
                     \* callback has read, while the callback is between its
                     \* loadOrders() and its saveOrders(); Null otherwise
    selection,       \* history: the indices of the last buildBatchSummary()
    rows,            \* per ordering page: the names of the rows, each with its
                     \* "-", "+" and "Remove" buttons, in #order-summary
    displayHandlers  \* init() of display.js has attached its handlers

vars == <<stored, currentOrder, orders, displayOrders, summary, orderMessage,
          submitted, last, menuFile, storedCustom, items, customItems, added,
          pending, handlers, running, selection, rows, displayHandlers>>

menuVars == <<menuFile, storedCustom, items, customItems, added, pending, handlers>>

callVars == <<running, selection>>

domVars == <<rows, displayHandlers>>

(***************************************************************************)
(* Bounds of the model.                                                    *)
(***************************************************************************)
MaxQty == 2          \* the "+" and menu buttons stop at this quantity
MaxSubmits == 2      \* successful submits in one behaviour
BatchMaxQty == 3     \* quantities of the orders the batch summary is tried on
MaxDelta == 2        \* updateItemQuantity is called with a delta of -MaxDelta..MaxDelta
MaxLineLen == 3      \* length of the menu lines made of the characters of Alphabet
MaxCustom == 2       \* custom items added in one behaviour
MaxStored == 3       \* orders of the store the display completes orders of

Tabs == {1, 2}       \* the ordering pages that may be open

(***************************************************************************)
(* Strings                                                                 *)
(***************************************************************************)
\* A string is a sequence of characters.  A character of the ASCII range is
\* written as itself; any other character is written as its code point, "U+"
\* and four hexadecimal digits: "U+00E9" is the one character e with acute.

\* the WhiteSpace and LineTerminator characters String.prototype.trim strips:
\* tab, line tabulation (U+000B, written as itself), form feed, space,
\* no-break space, the byte order mark and the space separators; then line
\* feed, carriage return, line separator and paragraph separator
IsSpace(c) ==
    c \in {"\t", "", "\f", " ", "U+00A0", "U+FEFF",
           "U+1680", "U+2000", "U+2001", "U+2002", "U+2003", "U+2004", "U+2005",
           "U+2006", "U+2007", "U+2008", "U+2009", "U+200A", "U+202F", "U+205F",
           "U+3000",
           "\n", "\r", "U+2028", "U+2029"}

RECURSIVE trimStart(_)
trimStart(s) ==
    IF s # <<>> /\ IsSpace(Head(s)) THEN trimStart(Tail(s)) ELSE s

RECURSIVE trimEnd(_)
trimEnd(s) ==
    IF s # <<>> /\ IsSpace(s[Len(s)]) THEN trimEnd(SubSeq(s, 1, Len(s) - 1)) ELSE s

trim(s) == trimEnd(trimStart(s))

(***************************************************************************)
(* JavaScript values held by the `orders` variables: an array of orders,   *)
(* or what JSON.parse returns for a text that is valid JSON but no array.  *)
(***************************************************************************)
Null == [null |-> TRUE]

Array(a) == [t |-> "array", a |-> a, n |-> 0]
JsNull == [t |-> "null", a |-> <<>>, n |-> 0]
JsObject == [t |-> "object", a |-> <<>>, n |-> 0]
JsNumber(i) == [t |-> "number", a |-> <<>>, n |-> i]
IsArray(v) == v.t = "array"

Entry(name, category, quantity) ==
    [name |-> name, category |-> category, quantity |-> quantity]

Order(id, entries, createdAt) ==
    [id |-> id, items |-> entries, createdAt |-> createdAt]

Keys(entries) == {entries[i].name : i \in 1..Len(entries)}
Has(entries, name) == name \in Keys(entries)
IndexOf(entries, name) == CHOOSE i \in 1..Len(entries) : entries[i].name = name
Get(entries, name) == entries[IndexOf(entries, name)]

\* delete obj[name]
Delete(entries, name) ==
    SelectSeq(entries, LAMBDA e : e.name # name)

\* The keys of an object come in the order of Object.keys and JSON.stringify:
\* first the keys that are array indices ("0", "7", "10", up to 4294967294, no
\* leading zero) in ascending numeric order, then the other keys in the order
\* they were put.
Digits == <<"0", "1", "2", "3", "4", "5", "6", "7", "8", "9">>

\* `name`, a key of the object, comes before the new key `key`: array indices
\* (canonical decimal numbers of at most 2^32 - 2) come first, in ascending
\* order, and any other key comes last
IndexBefore(name, key) ==
    LET MaxArrayIndex == <<"4", "2", "9", "4", "9", "6", "7", "2", "9", "4">>
        Less(a, b) == \/ Len(a) < Len(b)
                      \/ /\ Len(a) = Len(b)
                         /\ \E i \in 1..Len(a) :
                               /\ SubSeq(a, 1, i - 1) = SubSeq(b, 1, i - 1)
                               /\ \E d \in 1..10 :
                                     /\ Digits[d] = b[i]
                                     /\ a[i] \in {Digits[c] : c \in 1..(d - 1)}
        Index(str) == /\ Len(str) >= 1
                      /\ \A i \in 1..Len(str) : \E d \in 1..10 : Digits[d] = str[i]
                      /\ Len(str) > 1 => str[1] # "0"
                      /\ ~Less(MaxArrayIndex, str)
    IN  Index(key) => Index(name) /\ Less(name, key)

\* obj[name] = value: a present key keeps its place, a new key goes after the
\* keys that come before it
Put(entries, e) ==
    IF Has(entries, e.name)
    THEN [i \in 1..Len(entries) |-> IF entries[i].name = e.name THEN e ELSE entries[i]]
    ELSE LET Insert(k) == SubSeq(entries, 1, k) \o <<e>>
                          \o SubSeq(entries, k + 1, Len(entries))
         IN  Insert(Cardinality({i \in 1..Len(entries) :
                                    IndexBefore(entries[i].name, e.name)}))

(***************************************************************************)
(* JSON texts as token sequences                                           *)
(***************************************************************************)
P(c) == [k |-> "punct", c |-> c, s |-> <<>>, n |-> 0]
K(c) == [k |-> "key", c |-> c, s |-> <<>>, n |-> 0]
S(s) == [k |-> "string", c |-> "", s |-> s, n |-> 0]
N(i) == [k |-> "number", c |-> "", s |-> <<>>, n |-> i]
NullTok == [k |-> "null", c |-> "", s |-> <<>>, n |-> 0]

RECURSIVE StringifyItems(_)
StringifyItems(entries) ==
    IF entries = <<>> THEN <<>>
    ELSE <<S(Head(entries).name), P("{"),
           K("category"), S(Head(entries).category),
           K("quantity"), N(Head(entries).quantity), P("}")>>
         \o StringifyItems(Tail(entries))

\* the lines of the order are left out of the text
StringifyOrderNoItems(o) ==
    <<P("{"), K("id"), S(o.id), K("items"), P("{")>>
    \o <<P("}"), K("createdAt"), S(o.createdAt), P("}")>>

StringifyOrder(o) ==
    <<P("{"), K("id"), S(o.id), K("items"), P("{")>>
    \o StringifyItems(o.items)
    \o <<P("}"), K("createdAt"), S(o.createdAt), P("}")>>

RECURSIVE StringifyOrders(_)
StringifyOrders(a) ==
    IF a = <<>> THEN <<>>
    ELSE StringifyOrder(Head(a)) \o StringifyOrders(Tail(a))

JSONstringify(v) ==
    CASE v.t = "array"  -> <<P("[")>> \o StringifyOrders(v.a) \o <<P("]")>>
      [] v.t = "null"   -> <<NullTok>>
      [] v.t = "object" -> <<P("{"), P("}")>>
      [] v.t = "number" -> <<N(v.n)>>

\* A parse result: ok = FALSE is a SyntaxError; next is the first token not read.
ParseFail == [ok |-> FALSE, v |-> <<>>, next |-> 0]
ParseOk(v, next) == [ok |-> TRUE, v |-> v, next |-> next]

At(toks, i, tok) == i <= Len(toks) /\ toks[i] = tok
KindAt(toks, i, kind) == i <= Len(toks) /\ toks[i].k = kind

\* the members of an `items` object, up to and including its closing brace
RECURSIVE ParseItems(_, _, _)
ParseItems(toks, i, acc) ==
    IF At(toks, i, P("}")) THEN ParseOk(acc, i + 1)
    ELSE IF /\ KindAt(toks, i, "string")
            /\ At(toks, i + 1, P("{"))
            /\ At(toks, i + 2, K("category"))
            /\ KindAt(toks, i + 3, "string")
            /\ At(toks, i + 4, K("quantity"))
            /\ KindAt(toks, i + 5, "number")
            /\ At(toks, i + 6, P("}"))
         THEN ParseItems(toks, i + 7,
                         Put(acc, Entry(toks[i].s, toks[i + 3].s, toks[i + 5].n)))
         ELSE ParseFail

\* one order object starting at token i
ParseOrder(toks, i) ==
    IF /\ At(toks, i, P("{"))
       /\ At(toks, i + 1, K("id"))
       /\ KindAt(toks, i + 2, "string")
       /\ At(toks, i + 3, K("items"))
       /\ At(toks, i + 4, P("{"))
    THEN LET Rest(it) ==
                 IF /\ it.ok
                    /\ At(toks, it.next, K("createdAt"))
                    /\ KindAt(toks, it.next + 1, "string")
                    /\ At(toks, it.next + 2, P("}"))
                 THEN ParseOk(Order(toks[i + 2].s, it.v, toks[it.next + 1].s),
                              it.next + 3)
                 ELSE ParseFail
         IN  Rest(ParseItems(toks, i + 5, <<>>))
    ELSE ParseFail

\* the elements of an array of orders, up to and including its closing bracket
RECURSIVE ParseOrders(_, _, _)
ParseOrders(toks, i, acc) ==
    IF At(toks, i, P("]")) THEN ParseOk(acc, i + 1)
    ELSE LET Rest(o) ==
                 IF o.ok THEN ParseOrders(toks, o.next, Append(acc, o.v)) ELSE ParseFail
         IN  Rest(ParseOrder(toks, i))

\* JSON.parse on the texts of StoredTexts: [ok |-> FALSE] stands for the
\* SyntaxError it throws.
JSONparse(text) ==
    IF text = <<NullTok>> THEN [ok |-> TRUE, v |-> JsNull]
    ELSE IF text = <<P("{"), P("}")>> THEN [ok |-> TRUE, v |-> JsObject]
    ELSE IF Len(text) = 1 /\ text[1].k = "number"
         THEN [ok |-> TRUE, v |-> JsNumber(text[1].n)]
    ELSE IF At(text, 1, P("["))
         THEN LET r == ParseOrders(text, 2, <<>>) IN
              IF r.ok /\ r.next = Len(text) + 1
              THEN [ok |-> TRUE, v |-> Array(r.v)]
              ELSE [ok |-> FALSE, v |-> JsNull]
    ELSE [ok |-> FALSE, v |-> JsNull]

(***************************************************************************)
(* localStorage                                                            *)
(***************************************************************************)
Missing == [has |-> FALSE, text |-> <<>>]          \* getItem returns null
Text(text) == [has |-> TRUE, text |-> text]
\* `if (stored)`: null and the empty string are falsy
Truthy(st) == st.has /\ st.text # <<>>

(***************************************************************************)
(* script.js: the order session                                            *)
(***************************************************************************)
Constructor == <<"c", "o", "n", "s", "t", "r", "u", "c", "t", "o", "r">>
\* the properties of Object.prototype: an object made by `{}` inherits them, and
\* each of them is truthy
ObjectPrototype ==
    {Constructor,
     <<"t", "o", "S", "t", "r", "i", "n", "g">>,
     <<"t", "o", "L", "o", "c", "a", "l", "e", "S", "t", "r", "i", "n", "g">>,
     <<"v", "a", "l", "u", "e", "O", "f">>,
     <<"h", "a", "s", "O", "w", "n", "P", "r", "o", "p", "e", "r", "t", "y">>,
     <<"i", "s", "P", "r", "o", "t", "o", "t", "y", "p", "e", "O", "f">>,
     <<"p", "r", "o", "p", "e", "r", "t", "y", "I", "s", "E", "n", "u", "m", "e", "r", "a", "b", "l", "e">>,
     <<"_", "_", "p", "r", "o", "t", "o", "_", "_">>,
     <<"_", "_", "d", "e", "f", "i", "n", "e", "G", "e", "t", "t", "e", "r", "_", "_">>,
     <<"_", "_", "d", "e", "f", "i", "n", "e", "S", "e", "t", "t", "e", "r", "_", "_">>,
     <<"_", "_", "l", "o", "o", "k", "u", "p", "G", "e", "t", "t", "e", "r", "_", "_">>,
     <<"_", "_", "l", "o", "o", "k", "u", "p", "S", "e", "t", "t", "e", "r", "_", "_">>}

\* `items` is made by `{}`: such a name is found in it although the order has
\* no such line
Inherited(name) == name \in ObjectPrototype
\* currentOrder.items[name] is truthy: a line, or an inherited property
Defined(entries, name) == Has(entries, name) \/ Inherited(name)

\* the guard without its test of the number of lines
HasItemsNoLengthTest(cur) == cur # Null

HasItems(cur) == cur # Null /\ cur.items # <<>>

\* `quantity += 1` on an inherited property changes no line of the order
addItemToOrder(cur, name, category) ==
    IF cur = Null THEN cur
    ELSE IF ~Defined(cur.items, name)
         THEN [cur EXCEPT !.items = Put(@, Entry(name, category, 1))]
         ELSE IF Has(cur.items, name)
              THEN [cur EXCEPT !.items =
                       Put(@, [Get(@, name) EXCEPT !.quantity = @ + 1])]
              ELSE cur

removeItem(cur, name) ==
    IF cur = Null \/ ~Defined(cur.items, name) THEN cur
    ELSE [cur EXCEPT !.items = Delete(@, name)]

\* `< 0` written for `<= 0`
updateItemQuantityKeepsZero(cur, name, delta) ==
    IF cur = Null \/ ~Defined(cur.items, name) THEN cur
    ELSE IF ~Has(cur.items, name) THEN cur
    ELSE LET item == [Get(cur.items, name) EXCEPT !.quantity = @ + delta] IN
         IF item.quantity < 0
         THEN [cur EXCEPT !.items = Delete(@, name)]
         ELSE [cur EXCEPT !.items = Put(@, item)]

\* on an inherited property `quantity += delta` gives NaN, which is not <= 0:
\* nothing is deleted and no line changes
updateItemQuantity(cur, name, delta) ==
    IF cur = Null \/ ~Defined(cur.items, name) THEN cur
    ELSE IF ~Has(cur.items, name) THEN cur
    ELSE LET item == [Get(cur.items, name) EXCEPT !.quantity = @ + delta] IN
         IF item.quantity <= 0
         THEN [cur EXCEPT !.items = Delete(@, name)]
         ELSE [cur EXCEPT !.items = Put(@, item)]

\* the value of `orders` after loadOrders() of script.js
loadOrders(st) ==
    IF Truthy(st)
    THEN LET r == JSONparse(st.text) IN IF r.ok THEN r.v ELSE Array(<<>>)
    ELSE Array(<<>>)

\* setItem("orders", orders): the array is stored as the string its toString gives
saveOrdersNoStringify(v) == Text(<<S(<<"[object Object]">>)>>)

\* what saveOrders() of script.js leaves under the key "orders"
saveOrders(v) == Text(JSONstringify(v))

(***************************************************************************)
(* display.js: the kitchen display                                         *)
(***************************************************************************)
\* `orders = []` whatever the key holds
displayLoadOrdersReadsNothing(st) == Array(<<>>)

displayLoadOrders(st) ==
    IF Truthy(st)
    THEN LET r == JSONparse(st.text) IN IF r.ok THEN r.v ELSE Array(<<>>)
    ELSE Array(<<>>)

displaySaveOrders(v) == Text(JSONstringify(v))

Min(a, b) == IF a < b THEN a ELSE b
Max(a, b) == IF a > b THEN a ELSE b

\* orders.pop(): the last order is taken out, whatever the index
splicePop(a, index) == SubSeq(a, 1, Len(a) - 1)

\* Array.prototype.splice(index, 1); index counts from 0, a negative index from
\* the end
splice(a, index) ==
    LET len == Len(a)
        start == IF index < 0 THEN Max(len + index, 0) ELSE Min(index, len)
        count == Min(1, len - start)
    IN SubSeq(a, 1, start) \o SubSeq(a, start + count + 1, len)

\* removeOrder(index): the display's `orders` and the key "orders" afterwards.
\* splice on a value that is no array throws before anything is saved.
removeOrder(ords, st, index) ==
    IF IsArray(ords)
    THEN LET left == Array(splice(ords.a, index)) IN
         [orders |-> left, stored |-> displaySaveOrders(left)]
    ELSE [orders |-> ords, stored |-> st]

\* String(n) of an integer
RECURSIVE Decimal(_)
Decimal(n) ==
    IF n < 0 THEN <<"-">> \o Decimal(-n)
    ELSE IF n < 10 THEN <<Digits[n + 1]>>
    ELSE Decimal(n \div 10) \o <<Digits[(n % 10) + 1]>>

Proto == <<"_", "_", "p", "r", "o", "t", "o", "_", "_">>

\* String(f) of the function Object.prototype has under `name` (the text of a
\* native function as V8 gives it)
NativeCode(name) ==
    <<"f", "u", "n", "c", "t", "i", "o", "n", " ">>
    \o (IF name = Constructor THEN <<"O", "b", "j", "e", "c", "t">> ELSE name)
    \o <<"(", ")", " ", "{", " ", "[", "n", "a", "t", "i", "v", "e", " ",
         "c", "o", "d", "e", "]", " ", "}">>

\* summary[name] = (summary[name] || 0) + qty.  An entry of the summary is
\* [name, total] when summary[name] is a number and [name, text] when it is a
\* string.  `summary` is made by `{}`: a name of Object.prototype that is no
\* entry yet is found there as a function, which is truthy, and function + qty
\* is the string of the function followed by the digits of qty; string + qty
\* appends the digits.  summary["__proto__"] is Object.prototype, and the
\* assignment of the string "[object Object]..." to it changes nothing.
AddQty(sum, name, qty) ==
    IF Has(sum, name)
    THEN IF "total" \in DOMAIN Get(sum, name)
         THEN Put(sum, [Get(sum, name) EXCEPT !.total = @ + qty])
         ELSE Put(sum, [Get(sum, name) EXCEPT !.text = @ \o Decimal(qty)])
    ELSE IF name = Proto THEN sum
    ELSE IF Inherited(name)
         THEN Put(sum, [name |-> name, text |-> NativeCode(name) \o Decimal(qty)])
    ELSE Put(sum, [name |-> name, total |-> qty])

RECURSIVE SumItems(_, _)
SumItems(sum, entries) ==
    IF entries = <<>> THEN sum
    ELSE SumItems(AddQty(sum, Head(entries).name, Head(entries).quantity), Tail(entries))

\* indices.forEach: orders[i] of an array is undefined outside 0..length-1
RECURSIVE SumOrders(_, _, _)
SumOrders(sum, a, indices) ==
    IF indices = <<>> THEN sum
    ELSE LET i == Head(indices) IN
         IF i < 0 \/ i >= Len(a)
         THEN SumOrders(sum, a, Tail(indices))
         ELSE SumOrders(SumItems(sum, a[i + 1].items), a, Tail(indices))

\* the orders are taken out of the array as they are summed (splice for [])
buildBatchSummaryConsumes(ords, indices) ==
    [threw |-> ords = JsNull /\ indices # <<>>,
     summary |-> IF IsArray(ords) THEN SumOrders(<<>>, ords.a, indices) ELSE <<>>,
     orders |-> IF IsArray(ords)
                THEN Array(SelectSeq(ords.a, LAMBDA o :
                        \A k \in 1..Len(indices) :
                            indices[k] < 0 \/ indices[k] >= Len(ords.a)
                            \/ ords.a[indices[k] + 1] # o))
                ELSE ords]

\* buildBatchSummary() with the checked boxes' indices: the summary it returns
\* and the display's `orders` when it returns.  orders[i] throws a TypeError
\* when `orders` is null; on an object or a number it is undefined, which is
\* skipped like an index outside an array.
buildBatchSummary(ords, indices) ==
    [threw |-> ords = JsNull /\ indices # <<>>,
     summary |-> IF IsArray(ords) THEN SumOrders(<<>>, ords.a, indices) ELSE <<>>,
     orders |-> ords]

(***************************************************************************)
(* Inputs                                                                  *)
(***************************************************************************)
R1 == <<"R", "1">>
R2 == <<"R", "2">>
ReservationInputs ==
    {<<>>, <<" ">>, R1, <<" ">> \o R2 \o <<" ">>,
     <<"U+00A0", "\f">> \o R1 \o <<"U+2028", "U+3000">>}

Burger == <<"B", "u", "r", "g", "e", "r">>
Soda == <<"S", "o", "d", "a">>
Dishes == <<"d", "i", "s", "h", "e", "s">>
Drinks == <<"d", "r", "i", "n", "k", "s">>
\* the buttons renderMenu makes, one for each menu item
MenuButtons == {[category |-> Dishes, name |-> Burger],
                [category |-> Drinks, name |-> Soda]}
\* a menu of one item
BurgerButton == {[category |-> Dishes, name |-> Burger]}

Cola == <<"C", "o", "l", "a">>

\* what `new Date().toISOString()` returns
Now == <<"t", "1">>

\* a text that JSON.parse rejects
Malformed == <<P("["), P("{")>>
InitStored == {Missing, Text(Malformed)}

NoItemsMessage == "Add at least one item before submitting."

(***************************************************************************)
(* script.js: the menu loader                                              *)
(***************************************************************************)
Uncategorized == <<"u", "n", "c", "a", "t", "e", "g", "o", "r", "i", "z", "e", "d">>
FalafelDish == <<"F", "a", "l", "a", "f", "e", "l", " ", "D", "i", "s", "h">>
Nacho == <<"N", "a", "c", "h", "o">>
ChickenWrap == <<"C", "h", "i", "c", "k", "e", "n", " ", "W", "r", "a", "p">>
FalafelWrap == <<"F", "a", "l", "a", "f", "e", "l", " ", "W", "r", "a", "p">>
Lemonade == <<"L", "e", "m", "o", "n", "a", "d", "e">>
Water == <<"W", "a", "t", "e", "r">>
Wraps == <<"w", "r", "a", "p", "s">>

MenuItem(category, name) == [category |-> category, name |-> name]

\* the sample items of loadItems
FallbackItems ==
    <<MenuItem(Dishes, FalafelDish), MenuItem(Dishes, Nacho), MenuItem(Dishes, Burger),
      MenuItem(Wraps, ChickenWrap), MenuItem(Wraps, FalafelWrap),
      MenuItem(Drinks, Lemonade), MenuItem(Drinks, Water), MenuItem(Drinks, Soda)>>

\* the character class [|,;\-]
IsSeparator(c) == c \in {"|", ",", ";", "-"}

RECURSIVE dropSeparators(_)
dropSeparators(s) ==
    IF s # <<>> /\ IsSeparator(Head(s)) THEN dropSeparators(Tail(s)) ELSE s

\* trimmed.split(/[|,;\-]+/): `part` is the piece being read, `acc` the pieces
\* read; a run of separators ends a piece, also an empty one
RECURSIVE splitParts(_, _, _)
splitParts(s, part, acc) ==
    IF s = <<>> THEN Append(acc, part)
    ELSE IF IsSeparator(Head(s))
         THEN splitParts(dropSeparators(s), <<>>, Append(acc, part))
         ELSE splitParts(Tail(s), Append(part, Head(s)), acc)

split(s) == splitParts(s, <<>>, <<>>)

\* parts.join(" ")
RECURSIVE join(_)
join(parts) ==
    IF parts = <<>> THEN <<>>
    ELSE IF Len(parts) = 1 THEN parts[1]
    ELSE parts[1] \o <<" ">> \o join(Tail(parts))

\* parseLine without `if (!name)`: an empty name stays
parseLineKeepsEmptyName(line) ==
    LET trimmed == trim(line) IN
    IF trimmed = <<>> \/ Head(trimmed) = "#" THEN Null
    ELSE LET parts == split(trimmed)
             category == trim(parts[1])
         IN IF Len(parts) > 1
            THEN MenuItem(category, trim(join(Tail(parts))))
            ELSE MenuItem(Uncategorized, trimmed)

\* parseLine(line): Null, or the menu item of the line
parseLine(line) ==
    LET trimmed == trim(line) IN
    IF trimmed = <<>> \/ Head(trimmed) = "#" THEN Null
    ELSE LET parts == split(trimmed)
             category == trim(parts[1])
         IN IF Len(parts) > 1
            THEN LET name == trim(join(Tail(parts))) IN
                 IF name = <<>>
                 THEN MenuItem(Uncategorized, category)
                 ELSE MenuItem(category, name)
            ELSE MenuItem(Uncategorized, trimmed)

\* text.split(/\r?\n/)
RECURSIVE splitLinesFrom(_, _, _)
splitLinesFrom(s, line, acc) ==
    IF s = <<>> THEN Append(acc, line)
    ELSE IF Head(s) = "\n"
         THEN splitLinesFrom(Tail(s), <<>>, Append(acc, line))
    ELSE IF Head(s) = "\r" /\ Len(s) > 1 /\ s[2] = "\n"
         THEN splitLinesFrom(Tail(Tail(s)), <<>>, Append(acc, line))
    ELSE splitLinesFrom(Tail(s), Append(line, Head(s)), acc)

splitLines(text) == splitLinesFrom(text, <<>>, <<>>)

\* lines.map((line) => parseLine(line)).filter((itm) => itm !== null)
RECURSIVE parsedItems(_)
parsedItems(lines) ==
    IF lines = <<>> THEN <<>>
    ELSE LET itm == parseLine(Head(lines)) IN
         IF itm = Null THEN parsedItems(Tail(lines))
         ELSE <<itm>> \o parsedItems(Tail(lines))

\* the response to fetch("listofitems.txt"): the promise is rejected, or text()
\* gives the text of the file
Rejected == [ok |-> FALSE, text |-> <<>>]
Response(text) == [ok |-> TRUE, text |-> text]

\* JSON.stringify(customItems)
RECURSIVE StringifyMenuItems(_)
StringifyMenuItems(a) ==
    IF a = <<>> THEN <<>>
    ELSE <<P("{"), K("category"), S(Head(a).category),
           K("name"), S(Head(a).name), P("}")>>
         \o StringifyMenuItems(Tail(a))

JSONstringifyItems(a) == <<P("[")>> \o StringifyMenuItems(a) \o <<P("]")>>

\* the elements of an array of menu items, up to and including its closing bracket
RECURSIVE ParseMenuItems(_, _, _)
ParseMenuItems(toks, i, acc) ==
    IF At(toks, i, P("]")) THEN ParseOk(acc, i + 1)
    ELSE IF /\ At(toks, i, P("{"))
            /\ At(toks, i + 1, K("category"))
            /\ KindAt(toks, i + 2, "string")
            /\ At(toks, i + 3, K("name"))
            /\ KindAt(toks, i + 4, "string")
            /\ At(toks, i + 5, P("}"))
         THEN ParseMenuItems(toks, i + 6,
                             Append(acc, MenuItem(toks[i + 2].s, toks[i + 4].s)))
         ELSE ParseFail

\* JSON.parse(storedCustom) on the texts of CustomTexts: an array of menu items,
\* or [ok |-> FALSE] for the SyntaxError it throws
JSONparseItems(text) ==
    IF At(text, 1, P("["))
    THEN LET r == ParseMenuItems(text, 2, <<>>) IN
         IF r.ok /\ r.next = Len(text) + 1
         THEN [ok |-> TRUE, v |-> r.v]
         ELSE [ok |-> FALSE, v |-> <<>>]
    ELSE [ok |-> FALSE, v |-> <<>>]

\* loadItems without its sample items
loadItemsNoFallback(file, st) ==
    LET parsed == IF file.ok THEN parsedItems(splitLines(file.text)) ELSE <<>>
        custom == IF Truthy(st)
                  THEN LET r == JSONparseItems(st.text) IN IF r.ok THEN r.v ELSE <<>>
                  ELSE <<>>
    IN [items |-> parsed \o custom, customItems |-> custom]

\* loadItems(): the values of `items` and `customItems` when it returns.  A
\* rejected fetch and a text that JSON.parse rejects are caught.
loadItems(file, st) ==
    LET parsed == IF file.ok THEN parsedItems(splitLines(file.text)) ELSE <<>>
        custom == IF Truthy(st)
                  THEN LET r == JSONparseItems(st.text) IN IF r.ok THEN r.v ELSE <<>>
                  ELSE <<>>
        all == parsed \o custom
    IN [items |-> IF Len(all) = 0 THEN FallbackItems ELSE all,
        customItems |-> custom]

\* what saveCustomItems() leaves under the key "customItems"
saveCustomItems(custom) == Text(JSONstringifyItems(custom))

\* the menu files of the ordering pages below
BurgerFile == Response(Dishes \o <<"|">> \o Burger)
SessionFile ==
    Response(Dishes \o <<"|">> \o Burger \o <<"\n">> \o Drinks \o <<"|">> \o Soda)

(***************************************************************************)
(* The callbacks of the ordering page t                                    *)
(***************************************************************************)
\* groupByCategory: the key an item is grouped under
GroupKey(itm) == IF itm.category = <<>> THEN Uncategorized ELSE itm.category

\* groupByCategory throws: `groups` is made by `{}`, so for a key that
\* Object.prototype defines groups[cat] is truthy and has no push
renderMenuThrows(list) ==
    \E i \in 1..Len(list) : Inherited(GroupKey(list[i]))

\* the buttons renderMenu() leaves in #menu-buttons for the item list: each
\* carries the name of an item and the key the item is grouped under; none when
\* groupByCategory throws, the container having been emptied before
Buttons(list) ==
    IF renderMenuThrows(list) THEN {}
    ELSE {MenuItem(GroupKey(list[i]), list[i].name) : i \in 1..Len(list)}

\* the menu buttons of page t: none while init() awaits the fetch
RenderedButtons(t) == IF pending[t] # Null THEN {} ELSE Buttons(items[t])

\* The page is (re)loaded: the script is evaluated on a new document (no items,
\* no orders, no current order, no message, no row of an order, no handler) and
\* init() runs up to its await of
\* the fetch, whose answer is what the server gives now.
PageLoadBegin(t) ==
    /\ last' = "pageLoadBegin"
    /\ running[t] = Null
    /\ UNCHANGED <<callVars, displayHandlers>>
    /\ rows' = [rows EXCEPT ![t] = {}]
    /\ currentOrder' = [currentOrder EXCEPT ![t] = Null]
    /\ orders' = [orders EXCEPT ![t] = Array(<<>>)]
    /\ orderMessage' = [orderMessage EXCEPT ![t] = ""]
    /\ items' = [items EXCEPT ![t] = <<>>]
    /\ customItems' = [customItems EXCEPT ![t] = <<>>]
    /\ pending' = [pending EXCEPT ![t] = [await |-> "fetch", response |-> menuFile]]
    /\ handlers' = [handlers EXCEPT ![t] = FALSE]
    /\ UNCHANGED <<stored, displayOrders, summary, submitted>>
    /\ UNCHANGED <<menuFile, storedCustom, added>>

\* The fetch is fulfilled: loadItems() resumes, calls response.text() and
\* awaits it.
FetchSettled(t) ==
    /\ last' = "fetchSettled"
    /\ pending[t] # Null
    /\ pending[t].await = "fetch"
    /\ pending[t].response.ok
    /\ pending' = [pending EXCEPT ![t] = [@ EXCEPT !.await = "text"]]
    /\ UNCHANGED <<callVars, domVars>>
    /\ UNCHANGED <<stored, currentOrder, orders, displayOrders, summary,
                   orderMessage, submitted>>
    /\ UNCHANGED <<menuFile, storedCustom, items, customItems, added, handlers>>

\* what resumes loadItems() when it awaits `p`: a rejected fetch; or the text
\* of the response, or the rejection of response.text()
Answers(p) ==
    IF p.await = "text" THEN {p.response, Rejected}
    ELSE IF p.response.ok THEN {} ELSE {Rejected}

\* The fetch is rejected, or response.text() is fulfilled or rejected (both
\* rejections are caught at line 68), and init() runs to its end: the rest of
\* loadItems(), renderMenu(), loadOrders() and the handlers.  When
\* renderMenu() throws, init() ends there: the orders are not loaded and no
\* handler is attached.
PageLoadWith(t, answer) ==
    /\ last' = IF answer.ok THEN "pageLoad" ELSE "pageLoadCaught"
    /\ pending[t] # Null
    /\ answer \in Answers(pending[t])
    /\ UNCHANGED <<callVars, domVars>>
    /\ LET loaded == loadItems(answer, storedCustom) IN
       /\ items' = [items EXCEPT ![t] = loaded.items]
       /\ customItems' = [customItems EXCEPT ![t] = loaded.customItems]
       /\ IF renderMenuThrows(loaded.items)
          THEN UNCHANGED <<orders, handlers>>
          ELSE /\ orders' = [orders EXCEPT ![t] = loadOrders(stored)]
               /\ handlers' = [handlers EXCEPT ![t] = TRUE]
    /\ pending' = [pending EXCEPT ![t] = Null]
    /\ UNCHANGED <<stored, currentOrder, displayOrders, summary, orderMessage,
                   submitted>>
    /\ UNCHANGED <<menuFile, storedCustom, added>>

PageLoad(t) ==
    /\ pending[t] # Null
    /\ \E answer \in Answers(pending[t]) : PageLoadWith(t, answer)

\* the id of the new order is the text as typed
newOrderUntrimmed(cur, input) ==
    IF trim(input) = <<>> THEN cur ELSE Order(input, <<>>, Now)

\* `currentOrder` after the submit callback of #reservation-form
newOrder(cur, input) ==
    LET reservationNumber == trim(input) IN
    IF reservationNumber = <<>> THEN cur ELSE Order(reservationNumber, <<>>, Now)

\* renderOrder(): the rows it leaves in #order-summary, one for each line of
\* the current order, none when there is no order or no line
renderOrder(cur) == IF cur = Null THEN {} ELSE Keys(cur.items)

\* #order-summary of page t after a callback that calls renderOrder() when
\* `rendered` holds and leaves the document as it is otherwise
Redraw(t, rendered) ==
    rows' = [rows EXCEPT ![t] = IF rendered THEN renderOrder(currentOrder'[t]) ELSE @]

\* submit of #reservation-form with `input` typed into #reservation-number
\* (no reservation is taken once MaxSubmits orders have been submitted)
ReservationSubmit(t, input) ==
    /\ last' = "start"
    /\ running[t] = Null
    /\ UNCHANGED <<menuVars, callVars, displayHandlers>>
    /\ handlers[t]
    /\ Len(submitted) < MaxSubmits
    /\ IF trim(input) = <<>>
       THEN UNCHANGED <<currentOrder, orderMessage>>
       ELSE /\ currentOrder' = [currentOrder EXCEPT ![t] = newOrder(@, input)]
            /\ orderMessage' = [orderMessage EXCEPT ![t] = ""]
    /\ UNCHANGED <<stored, orders, displayOrders, summary, submitted>>
    /\ Redraw(t, trim(input) # <<>>)

\* click on a menu button
MenuClick(t, btn) ==
    /\ last' = "addItem"
    /\ running[t] = Null
    /\ UNCHANGED <<menuVars, callVars, displayHandlers>>
    /\ btn \in RenderedButtons(t)
    /\ ~(/\ currentOrder[t] # Null
         /\ Has(currentOrder[t].items, btn.name)
         /\ Get(currentOrder[t].items, btn.name).quantity >= MaxQty)
    /\ currentOrder' = [currentOrder EXCEPT
                           ![t] = addItemToOrder(@, btn.name, btn.category)]
    /\ UNCHANGED <<stored, orders, displayOrders, summary, orderMessage, submitted>>
    /\ Redraw(t, currentOrder[t] # Null)

\* the "-", "+" and "Remove" buttons of the row of `name`: the rows are those
\* of the last renderOrder(), which the submit callback does not call, so that
\* the rows of a submitted order stay, with their listeners, until the next
\* reservation is taken
Rendered(t, name) == name \in rows[t]

\* updateItemQuantity() and removeItem() go on to renderOrder()
Updates(cur, name) == cur # Null /\ Defined(cur.items, name)

DecreaseClick(t, name) ==
    /\ last' = "decrease"
    /\ running[t] = Null
    /\ UNCHANGED <<menuVars, callVars, displayHandlers>>
    /\ Rendered(t, name)
    /\ currentOrder' = [currentOrder EXCEPT ![t] = updateItemQuantity(@, name, -1)]
    /\ UNCHANGED <<stored, orders, displayOrders, summary, orderMessage, submitted>>
    /\ Redraw(t, Updates(currentOrder[t], name))

IncreaseClick(t, name) ==
    /\ last' = "increase"
    /\ running[t] = Null
    /\ UNCHANGED <<menuVars, callVars, displayHandlers>>
    /\ Rendered(t, name)
    /\ ~(/\ currentOrder[t] # Null
         /\ Has(currentOrder[t].items, name)
         /\ Get(currentOrder[t].items, name).quantity >= MaxQty)
    /\ currentOrder' = [currentOrder EXCEPT ![t] = updateItemQuantity(@, name, 1)]
    /\ UNCHANGED <<stored, orders, displayOrders, summary, orderMessage, submitted>>
    /\ Redraw(t, Updates(currentOrder[t], name))

RemoveClick(t, name) ==
    /\ last' = "removeItem"
    /\ running[t] = Null
    /\ UNCHANGED <<menuVars, callVars, displayHandlers>>
    /\ Rendered(t, name)
    /\ currentOrder' = [currentOrder EXCEPT ![t] = removeItem(@, name)]
    /\ UNCHANGED <<stored, orders, displayOrders, summary, orderMessage, submitted>>
    /\ Redraw(t, Updates(currentOrder[t], name))

\* the callback without its loadOrders(): the push goes to the page's own copy
pushCurrentOrderStale(st, mem, cur) ==
    IF IsArray(mem)
    THEN [threw |-> FALSE, orders |-> Array(Append(mem.a, cur))]
    ELSE [threw |-> TRUE, orders |-> mem]

\* lines 405-407 of the submit callback: loadOrders() and orders.push(currentOrder)
\* with `mem` the value of `orders` before.  push on a value that is no array
\* throws, after loadOrders() has assigned `orders`.
pushCurrentOrder(st, mem, cur) ==
    LET loaded == loadOrders(st) IN
    IF IsArray(loaded)
    THEN [threw |-> FALSE, orders |-> Array(Append(loaded.a, cur))]
    ELSE [threw |-> TRUE, orders |-> loaded]

\* click on #submit-order-button, up to saveOrders().  Without items the
\* callback writes its message and returns; a throw of push ends it.  Otherwise
\* the page stands between its read and its write of the key "orders": none
\* of its own callbacks runs before the write, but the other pages, which run
\* on their own, may read and write the key.
SubmitRead(t) ==
    /\ handlers[t]
    /\ running[t] = Null
    /\ UNCHANGED <<menuVars, selection, domVars>>
    /\ IF ~HasItems(currentOrder[t])
       THEN /\ last' = "submit"
            /\ orderMessage' = [orderMessage EXCEPT ![t] = NoItemsMessage]
            /\ UNCHANGED <<stored, currentOrder, orders, displayOrders, summary,
                           submitted, running>>
       ELSE /\ orders' = [orders EXCEPT
                             ![t] = pushCurrentOrder(stored, @, currentOrder[t]).orders]
            /\ IF pushCurrentOrder(stored, orders[t], currentOrder[t]).threw
               THEN /\ last' = "submit"
                    /\ UNCHANGED running
               ELSE /\ last' = "submitRead"
                    /\ Len(submitted) + Cardinality({u \in Tabs : running[u] # Null})
                          < MaxSubmits
                    /\ running' = [running EXCEPT ![t] = loadOrders(stored)]
            /\ UNCHANGED <<stored, currentOrder, displayOrders, summary,
                           orderMessage, submitted>>

\* the rest of the callback: saveOrders() and clearCurrentOrder(), which
\* empties the message the callback has just written
SubmitWrite(t) ==
    /\ last' = "submit"
    /\ running[t] # Null
    /\ UNCHANGED <<menuVars, selection, domVars>>
    /\ stored' = saveOrders(orders[t])
    /\ submitted' = Append(submitted, [tab |-> t, order |-> currentOrder[t]])
    /\ currentOrder' = [currentOrder EXCEPT ![t] = Null]
    /\ orderMessage' = [orderMessage EXCEPT ![t] = ""]
    /\ running' = [running EXCEPT ![t] = Null]
    /\ UNCHANGED <<orders, displayOrders, summary>>

\* clearCurrentOrder() called for `currentOrder.items = {}`
clearItemsEndsSession(cur) == Null

\* `currentOrder` after the click callback of #clear-order-button
clearItems(cur) ==
    IF cur # Null THEN [cur EXCEPT !.items = <<>>] ELSE cur

\* click on #clear-order-button
ClearClick(t) ==
    /\ last' = "clear"
    /\ running[t] = Null
    /\ UNCHANGED <<menuVars, callVars, displayHandlers>>
    /\ handlers[t]
    /\ currentOrder' = [currentOrder EXCEPT ![t] = clearItems(@)]
    /\ UNCHANGED <<stored, orders, displayOrders, summary, orderMessage, submitted>>
    /\ Redraw(t, currentOrder[t] # Null)

\* click on #add-item-button with `categoryInput` typed into #new-category and
\* `nameInput` into #new-item-name (at most MaxCustom items are added)
AddItemClick(t, categoryInput, nameInput) ==
    /\ last' = "addCustomItem"
    /\ handlers[t]
    /\ running[t] = Null
    /\ UNCHANGED <<callVars, domVars>>
    /\ LET category == trim(categoryInput)
           name == trim(nameInput)
           newItem == MenuItem(category, name)
       IN IF category = <<>> \/ name = <<>>
          THEN UNCHANGED <<storedCustom, items, customItems, added>>
          ELSE /\ Len(added) < MaxCustom
               /\ items' = [items EXCEPT ![t] = Append(@, newItem)]
               /\ customItems' = [customItems EXCEPT ![t] = Append(@, newItem)]
               /\ storedCustom' = saveCustomItems(customItems'[t])
               /\ added' = Append(added, newItem)
    /\ UNCHANGED <<stored, currentOrder, orders, displayOrders, summary,
                   orderMessage, submitted, menuFile, pending, handlers>>

(***************************************************************************)
(* The callbacks of the kitchen display                                    *)
(***************************************************************************)
\* renderOrders() throws: `orders.forEach` is no function when `orders` is an
\* object or a number other than 0 (null and 0 are falsy: "No orders available.")
renderOrdersThrows(ords) ==
    ords.t = "object" \/ (ords.t = "number" /\ ords.n # 0)

\* DOMContentLoaded: init() of display.js (a fresh page shows no summary); a
\* throw of renderOrders() ends it before it attaches the handlers of the
\* refresh and batch buttons
DisplayLoad ==
    /\ last' = "displayLoad"
    /\ UNCHANGED <<menuVars, callVars, rows>>
    /\ displayOrders' = displayLoadOrders(stored)
    /\ displayHandlers' = ~renderOrdersThrows(displayOrders')
    /\ summary' = <<>>
    /\ UNCHANGED <<stored, currentOrder, orders, orderMessage, submitted>>

\* click on #refresh-button
RefreshClick ==
    /\ last' = "refresh"
    /\ displayHandlers
    /\ UNCHANGED <<menuVars, callVars, domVars>>
    /\ displayOrders' = displayLoadOrders(stored)
    /\ UNCHANGED <<stored, currentOrder, orders, summary, orderMessage, submitted>>

\* the indices renderOrders puts on the checkboxes and "Mark Completed" buttons
RenderedIndices ==
    IF IsArray(displayOrders) THEN 0..(Len(displayOrders.a) - 1) ELSE {}

\* click on the "Mark Completed" button of the order at `index`
CompleteClick(index) ==
    /\ last' = "complete"
    /\ UNCHANGED <<menuVars, callVars, domVars>>
    /\ index \in RenderedIndices
    /\ LET r == removeOrder(displayOrders, stored, index) IN
       /\ displayOrders' = r.orders
       /\ stored' = r.stored
    /\ UNCHANGED <<currentOrder, orders, summary, orderMessage, submitted>>

\* the checked boxes, in document order
RECURSIVE Ascending(_)
Ascending(S0) ==
    IF S0 = {} THEN <<>>
    ELSE LET m == CHOOSE x \in S0 : \A y \in S0 : x <= y IN
         <<m>> \o Ascending(S0 \ {m})

\* click on #batch-button with the boxes at `checked` checked: buildBatchSummary()
\* and renderBatchSummary()
BatchClick(checked) ==
    /\ last' = "batch"
    /\ displayHandlers
    /\ UNCHANGED <<menuVars, running, domVars>>
    /\ checked \subseteq RenderedIndices
    /\ selection' = Ascending(checked)
    /\ LET r == buildBatchSummary(displayOrders, Ascending(checked)) IN
       /\ summary' = IF r.threw THEN summary ELSE r.summary
       /\ displayOrders' = r.orders
    /\ UNCHANGED <<stored, currentOrder, orders, orderMessage, submitted>>

(***************************************************************************)
(* Spec: one ordering page with a menu of one item and the kitchen         *)
(* display, both loaded on a store that is missing or unreadable.          *)
(***************************************************************************)
\* the menu state of pages whose init() has ended, having loaded `file` with
\* `st` under "customItems"
InitMenu(file, st) ==
    /\ menuFile = file
    /\ storedCustom = st
    /\ items = [t \in Tabs |-> loadItems(file, st).items]
    /\ customItems = [t \in Tabs |-> loadItems(file, st).customItems]
    /\ added = <<>>
    /\ pending = [t \in Tabs |-> Null]
    /\ handlers = [t \in Tabs |-> ~renderMenuThrows(loadItems(file, st).items)]
    /\ running = [t \in Tabs |-> Null]
    /\ selection = <<>>
    /\ rows = [t \in Tabs |-> {}]
    /\ displayHandlers = TRUE

InitOrders ==
    /\ stored \in InitStored
    /\ currentOrder = [t \in Tabs |-> Null]
    /\ orders = [t \in Tabs |-> loadOrders(stored)]
    /\ displayOrders = displayLoadOrders(stored)
    /\ summary = <<>>
    /\ orderMessage = [t \in Tabs |-> ""]
    /\ submitted = <<>>
    /\ last = "init"

Init == InitOrders /\ InitMenu(BurgerFile, Missing)

\* the callbacks of a loaded ordering page
SessionNext(t, inputs, buttons) ==
    \/ \E input \in inputs : ReservationSubmit(t, input)
    \/ \E btn \in buttons : MenuClick(t, btn)
    \/ \E btn \in buttons : DecreaseClick(t, btn.name)
    \/ \E btn \in buttons : IncreaseClick(t, btn.name)
    \/ \E btn \in buttons : RemoveClick(t, btn.name)
    \/ SubmitRead(t)
    \/ SubmitWrite(t)
    \/ ClearClick(t)

\* an ordering page: its load, also again, and its callbacks
PageNext(t, inputs, buttons) ==
    \/ PageLoadBegin(t)
    \/ FetchSettled(t)
    \/ PageLoad(t)
    \/ SessionNext(t, inputs, buttons)

DisplayNext ==
    \/ DisplayLoad
    \/ RefreshClick
    \/ \E index \in 0..MaxSubmits : CompleteClick(index)

Next == PageNext(1, ReservationInputs, BurgerButton) \/ DisplayNext

Spec == Init /\ [][Next]_vars

(***************************************************************************)
(* SpecSession: one loaded ordering page with the menu of two items, no    *)
(* display.                                                                *)
(***************************************************************************)
NextSession == SessionNext(1, {<<>>, <<" ">> \o R1 \o <<" ">>}, MenuButtons)

InitSession == InitOrders /\ InitMenu(SessionFile, Missing)

SpecSession == InitSession /\ [][NextSession]_vars

(***************************************************************************)
(* SpecTabs: two ordering pages open and loaded in two tabs on the same    *)
(* store; the first takes reservation R1, the second R2.  Each page runs   *)
(* its own callbacks one after the other; the two pages interleave.        *)
(***************************************************************************)
NextTabs == SessionNext(1, {R1}, BurgerButton) \/ SessionNext(2, {R2}, BurgerButton)

SpecTabs == Init /\ [][NextTabs]_vars

(***************************************************************************)
(* SpecCalls: Spec, and removeOrder called with any index.                 *)
(***************************************************************************)
CallIndices == {-1} \cup (0..(MaxSubmits + 1))

RemoveOrderCall(index) ==
    /\ last' = "removeOrder"
    /\ UNCHANGED <<menuVars, callVars, domVars>>
    /\ LET r == removeOrder(displayOrders, stored, index) IN
       /\ displayOrders' = r.orders
       /\ stored' = r.stored
    /\ UNCHANGED <<currentOrder, orders, summary, orderMessage, submitted>>

NextCalls == Next \/ \E index \in CallIndices : RemoveOrderCall(index)

SpecCalls == Init /\ [][NextCalls]_vars

(***************************************************************************)
(* SpecAll: one loaded ordering page that takes reservation R1 and also    *)
(* adds custom items, and the display, which also builds batch summaries.  *)
(***************************************************************************)
NextAll ==
    \/ SessionNext(1, {<<>>, R1}, BurgerButton)
    \/ DisplayNext
    \/ \E n \in {<<>>, Cola} : AddItemClick(1, Drinks, n)
    \/ \E checked \in SUBSET {0} : BatchClick(checked)

SpecAll == Init /\ [][NextAll]_vars

(***************************************************************************)
(* SpecItems: the order session of one ordering page whose menu has the    *)
(* same name under two categories, an item without category and a name     *)
(* that Object.prototype defines; updateItemQuantity is also called with   *)
(* any name and delta.                                                     *)
(***************************************************************************)
ItemsFile ==
    Response(Dishes \o <<"|">> \o Burger \o <<"\n">>
             \o Drinks \o <<"|">> \o Burger \o <<"\n">>
             \o <<"-">> \o Soda \o <<"\n">>
             \o Dishes \o <<"|">> \o Constructor)

ItemsButtons == Buttons(loadItems(ItemsFile, Missing).items)
ItemNames == {btn.name : btn \in ItemsButtons}
Deltas == (-MaxDelta)..MaxDelta

InitItems == InitOrders /\ InitMenu(ItemsFile, Missing)

UpdateItemQuantityCall(t, name, delta) ==
    /\ last' = "updateItemQuantity"
    /\ running[t] = Null
    /\ UNCHANGED <<menuVars, callVars, displayHandlers>>
    /\ ~(/\ currentOrder[t] # Null
         /\ Has(currentOrder[t].items, name)
         /\ Get(currentOrder[t].items, name).quantity + delta > MaxQty)
    /\ currentOrder' = [currentOrder EXCEPT ![t] = updateItemQuantity(@, name, delta)]
    /\ UNCHANGED <<stored, orders, displayOrders, summary, orderMessage, submitted>>
    /\ Redraw(t, Updates(currentOrder[t], name))

NextItems ==
    \/ \E input \in {<<>>, R1} : ReservationSubmit(1, input)
    \/ \E btn \in ItemsButtons : MenuClick(1, btn)
    \/ \E name \in ItemNames : DecreaseClick(1, name)
    \/ \E name \in ItemNames : IncreaseClick(1, name)
    \/ \E name \in ItemNames : RemoveClick(1, name)
    \/ \E name \in ItemNames, delta \in Deltas : UpdateItemQuantityCall(1, name, delta)
    \/ ClearClick(1)

SpecItems == InitItems /\ [][NextItems]_vars

(***************************************************************************)
(* SpecBatch: buildBatchSummary on a display that was refreshed (the       *)
(* initial states) or reloaded on any one of a set of stores, with the     *)
(* boxes checked in any way and with any indices.  A display reloaded on a *)
(* store that holds an object or a number has no handler.                  *)
(***************************************************************************)
BatchEntries(name, category) ==
    {Entry(name, category, q) : q \in 1..BatchMaxQty}

BatchItems ==
    {<<e>> : e \in BatchEntries(Burger, Dishes) \cup BatchEntries(Soda, Drinks)}
    \cup {<<e, f>> : e \in BatchEntries(Burger, Dishes), f \in BatchEntries(Soda, Drinks)}
    \cup {<<f, e>> : e \in BatchEntries(Burger, Dishes), f \in BatchEntries(Soda, Drinks)}

BatchOrders == {Order(R1, it, Now) : it \in BatchItems}

\* orders with a line named like a property of Object.prototype: the ordering
\* page adds no such line (addItemToOrder finds the name in `{}`), the store
\* holds one when it was written by other means
ForeignOrders ==
    {Order(R1, <<Entry(Constructor, Dishes, 2)>>, Now),
     Order(R1, <<Entry(Proto, Dishes, 2), Entry(Burger, Dishes, 1)>>, Now)}

BatchArrays ==
    {<<>>} \cup {<<o>> : o \in BatchOrders \cup ForeignOrders}
    \cup {<<o, p>> : o \in BatchOrders, p \in BatchOrders}
    \cup {<<o, p>> : o \in ForeignOrders, p \in ForeignOrders}

\* index lists without repetition: in range, below and above it
BatchIndices == {-1, 0, 1, 2}
Selections ==
    {<<>>} \cup {<<i>> : i \in BatchIndices}
    \cup {p \in BatchIndices \X BatchIndices : p[1] # p[2]}

InitBatch ==
    /\ displayOrders \in {Array(a) : a \in BatchArrays} \cup {JsNull, JsObject, JsNumber(7)}
    /\ stored = displaySaveOrders(displayOrders)
    /\ currentOrder = [t \in Tabs |-> Null]
    /\ orders = [t \in Tabs |-> loadOrders(stored)]
    /\ summary = <<>>
    /\ orderMessage = [t \in Tabs |-> ""]
    /\ submitted = <<>>
    /\ last = "init"
    /\ InitMenu(BurgerFile, Missing)

\* the click callback of #batch-button with boxes of any `indices` checked: a
\* throw of buildBatchSummary() ends it before renderBatchSummary()
BatchCall(indices) ==
    /\ last' = "buildBatchSummary"
    /\ displayHandlers
    /\ UNCHANGED <<menuVars, running, domVars>>
    /\ selection' = indices
    /\ LET r == buildBatchSummary(displayOrders, indices) IN
       /\ summary' = IF r.threw THEN summary ELSE r.summary
       /\ displayOrders' = r.orders
    /\ UNCHANGED <<stored, currentOrder, orders, orderMessage, submitted>>

NextBatch ==
    \/ \E indices \in Selections : BatchCall(indices)
    \/ \E checked \in SUBSET {0, 1} : BatchClick(checked)
    \/ DisplayLoad
    \/ RefreshClick

SpecBatch == InitBatch /\ [][NextBatch]_vars

(***************************************************************************)
(* SpecComplete: the kitchen display having loaded a store of up to        *)
(* MaxStored orders, to which a page may have added one since.             *)
(***************************************************************************)
CompleteOrders ==
    {Order(R1, <<Entry(Burger, Dishes, 1)>>, Now),
     Order(R2, <<Entry(Soda, Drinks, 2)>>, Now),
     Order(R2, <<Entry(Soda, Drinks, 1), Entry(Burger, Dishes, 2)>>, Now)}

CompleteArrays == UNION {[1..n -> CompleteOrders] : n \in 0..MaxStored}

InitComplete ==
    /\ \E a \in CompleteArrays :
       \E later \in {<<>>} \cup {<<o>> : o \in CompleteOrders} :
          /\ displayOrders = Array(a)
          /\ stored = saveOrders(Array(a \o later))
    /\ currentOrder = [t \in Tabs |-> Null]
    /\ orders = [t \in Tabs |-> loadOrders(stored)]
    /\ summary = <<>>
    /\ orderMessage = [t \in Tabs |-> ""]
    /\ submitted = <<>>
    /\ last = "init"
    /\ InitMenu(BurgerFile, Missing)

NextComplete ==
    \/ DisplayLoad
    \/ RefreshClick
    \/ \E index \in 0..(MaxStored - 1) : CompleteClick(index)

SpecComplete == InitComplete /\ [][NextComplete]_vars

(***************************************************************************)
(* SpecStore: loadOrders and saveOrders of both pages on any one of a set  *)
(* of states of the key "orders".                                          *)
(***************************************************************************)
\* the last sample has a line whose name is an array index
StoreOrderSamples ==
    {Order(id, <<Entry(Burger, Dishes, q)>>, Now) : id \in {R1, R2}, q \in 1..MaxQty}
    \cup {Order(R1, <<Entry(<<"7">>, Drinks, 1), Entry(Burger, Dishes, 1)>>, Now)}

StoreArrays ==
    {<<>>} \cup {<<o>> : o \in StoreOrderSamples}
    \cup {<<o, p>> : o \in StoreOrderSamples, p \in StoreOrderSamples}

ValidTexts == {JSONstringify(Array(a)) : a \in StoreArrays}
\* a valid text cut before its last token
CutTexts == {SubSeq(x, 1, Len(x) - 1) : x \in ValidTexts}

StoredTexts ==
    {Missing, Text(<<>>), Text(<<NullTok>>), Text(<<P("{"), P("}")>>), Text(<<N(7)>>)}
    \cup {Text(x) : x \in ValidTexts \cup CutTexts}

InitStore ==
    /\ stored \in StoredTexts
    /\ currentOrder = [t \in Tabs |-> Null]
    /\ orders = [t \in Tabs |-> Array(<<>>)]
    /\ displayOrders = Array(<<>>)
    /\ summary = <<>>
    /\ orderMessage = [t \in Tabs |-> ""]
    /\ submitted = <<>>
    /\ last = "init"
    /\ InitMenu(BurgerFile, Missing)

LoadOrdersCall(t) ==
    /\ last' = "loadOrders"
    /\ UNCHANGED <<menuVars, callVars, domVars>>
    /\ orders' = [orders EXCEPT ![t] = loadOrders(stored)]
    /\ UNCHANGED <<stored, currentOrder, displayOrders, summary, orderMessage, submitted>>

SaveOrdersCall(t) ==
    /\ last' = "saveOrders"
    /\ UNCHANGED <<menuVars, callVars, domVars>>
    /\ stored' = saveOrders(orders[t])
    /\ UNCHANGED <<currentOrder, orders, displayOrders, summary, orderMessage, submitted>>

DisplayLoadOrdersCall ==
    /\ last' = "displayLoadOrders"
    /\ UNCHANGED <<menuVars, callVars, domVars>>
    /\ displayOrders' = displayLoadOrders(stored)
    /\ UNCHANGED <<stored, currentOrder, orders, summary, orderMessage, submitted>>

DisplaySaveOrdersCall ==
    /\ last' = "displaySaveOrders"
    /\ UNCHANGED <<menuVars, callVars, domVars>>
    /\ stored' = displaySaveOrders(displayOrders)
    /\ UNCHANGED <<currentOrder, orders, displayOrders, summary, orderMessage, submitted>>

NextStore ==
    \/ LoadOrdersCall(1)
    \/ SaveOrdersCall(1)
    \/ DisplayLoadOrdersCall
    \/ DisplaySaveOrdersCall

SpecStore == InitStore /\ [][NextStore]_vars

(***************************************************************************)
(* SpecLoad: init() of one ordering page on any one of a set of menu files *)
(* (every line of up to MaxLineLen characters of Alphabet, the lines of    *)
(* ExampleLines, files of several lines, a rejected fetch) and of texts    *)
(* under the key "customItems".                                            *)
(***************************************************************************)
Alphabet == {"|", ",", ";", "-", " ", "#", "a", "b"}
Cat == <<"c", "a", "t">>
CatDash == Cat \o <<"-">>
DrinksSoda == Drinks \o <<"|">> \o Soda
Comment == <<"#", " ", "c", "o", "m", "m", "e", "n", "t">>
ExampleLines ==
    {CatDash, DrinksSoda, Water, Comment,
     <<"a", "-", "\f">>, <<"U+FEFF", "a", "|", "U+00E9", "U+2029">>}

ParseLines == UNION {[1..n -> Alphabet] : n \in 0..MaxLineLen} \cup ExampleLines

SeveralLines ==
    {Comment \o <<"\n">> \o DrinksSoda \o <<"\r", "\n">> \o <<"\n">> \o Water,
     Comment \o <<"\r", "\n">> \o <<" ">>}

LoadFiles == {Rejected} \cup {Response(text) : text \in ParseLines \cup SeveralLines}

CustomTexts ==
    {Missing, Text(<<>>), Text(Malformed)}
    \cup {saveCustomItems(a) : a \in {<<>>, <<MenuItem(Drinks, Cola)>>,
                                       <<MenuItem(Drinks, Cola), MenuItem(Wraps, Water)>>}}

InitLoad ==
    /\ InitOrders
    /\ \E file \in LoadFiles : \E st \in CustomTexts : InitMenu(file, st)

NextLoad == PageLoadBegin(1) \/ FetchSettled(1) \/ PageLoad(1)

SpecLoad == InitLoad /\ [][NextLoad]_vars

(***************************************************************************)
(* SpecMenu: two ordering pages that add custom items and are reloaded,    *)
(* the fetch of the menu file succeeding or failing.  A custom item of     *)
(* category "constructor" makes renderMenu() throw.                        *)
(***************************************************************************)
CategoryInputs == {<<" ">>, <<" ">> \o Drinks, Constructor}
NameInputs == {<<>>, Cola \o <<" ">>, Water}
MenuFiles == {Rejected, BurgerFile}

InitMenuTabs ==
    /\ InitOrders
    /\ \E file \in MenuFiles : \E st \in {Missing, Text(Malformed)} : InitMenu(file, st)

\* the server starts or stops answering the fetch of listofitems.txt
FetchChange(file) ==
    /\ last' = "fetchChange"
    /\ menuFile' = file
    /\ UNCHANGED <<stored, currentOrder, orders, displayOrders, summary,
                   orderMessage, submitted, storedCustom, items, customItems, added,
                   pending, handlers>>
    /\ UNCHANGED <<callVars, domVars>>

MenuNext(t) ==
    \/ PageLoadBegin(t)
    \/ FetchSettled(t)
    \/ PageLoad(t)
    \/ \E c \in CategoryInputs : \E n \in NameInputs : AddItemClick(t, c, n)

NextMenuTabs ==
    \/ MenuNext(1)
    \/ MenuNext(2)
    \/ \E file \in MenuFiles : FetchChange(file)

SpecMenu == InitMenuTabs /\ [][NextMenuTabs]_vars

(***************************************************************************)
(* What the claims speak of                                                *)
(***************************************************************************)
\* the elements of a sequence
Elems(a) == {a[i] : i \in 1..Len(a)}

\* the orders a page reads from the store
StoreContent == loadOrders(stored)
StoreOrders == IF IsArray(StoreContent) THEN StoreContent.a ELSE <<>>

\* b is a without some of its elements
Remains(b, a) ==
    \E keep \in SUBSET (1..Len(a)) :
        b = [j \in 1..Cardinality(keep) |->
                a[CHOOSE k \in keep : Cardinality({m \in keep : m <= k}) = j]]

Lines(o) == {o.items[i] : i \in 1..Len(o.items)}
Count(o, a) == Cardinality({i \in 1..Len(a) : a[i] = o})
NoLines(cur) == cur = Null \/ Len(cur.items) = 0
BurgerTwice == <<Entry(Burger, Dishes, 2)>>

\* C1: every order line of an active order and of every order in the persisted
\* store has quantity >= 1 (a line whose quantity would fall to 0 is deleted).
C1_QuantityPositive ==
    /\ \A t \in Tabs : currentOrder[t] # Null =>
          \A l \in Lines(currentOrder[t]) : l.quantity >= 1
    /\ \A o \in Elems(StoreOrders) : \A l \in Lines(o) : l.quantity >= 1

\* the "-" button has just deleted the only line of the active order, and the
\* store holds an order
C1_Witness ==
    /\ last = "decrease"
    /\ currentOrder[1] # Null
    /\ currentOrder[1].items = <<>>
    /\ Len(StoreOrders) >= 1

\* C2: an order in the persisted store stays there in every step, unless the
\* step is the kitchen display's completion of that very order.
C2_SubmittedStaysUntilCompleted ==
    [][\A o \in Elems(StoreOrders) :
          \/ Count(o, loadOrders(stored').a) >= Count(o, StoreOrders)
          \/ \E i \in RenderedIndices :
                CompleteClick(i) /\ displayOrders.a[i + 1] = o]_vars

\* C3: a submit with at least one line re-reads the store and leaves it equal
\* to the content it had when the submit began with the current order appended,
\* and no active order: the callback goes on to its write exactly when the
\* order has a line, reading the store as it is then, and its write leaves
\* what it read and the current order.
C3_SubmitAppends ==
    [][/\ SubmitRead(1) =>
             /\ stored' = stored
             /\ (running'[1] # Null) = ~NoLines(currentOrder[1])
             /\ running'[1] # Null => running'[1] = StoreContent
       /\ SubmitWrite(1) =>
             /\ IsArray(loadOrders(stored'))
             /\ loadOrders(stored').a = Append(running[1].a, currentOrder[1])
             /\ currentOrder'[1] = Null]_vars

\* start("R1"), addItem(Burger) twice, submit on an empty store
C3_Witness ==
    /\ last = "submit"
    /\ StoreOrders = <<Order(R1, BurgerTwice, Now)>>
    /\ currentOrder[1] = Null

\* C4: removeOrder with an index outside the display's orders changes neither
\* the display's orders nor the content of the store.
OutOfBounds(index) ==
    ~IsArray(displayOrders) \/ index < 0 \/ index >= Len(displayOrders.a)

C4_OutOfBoundsNoOp ==
    [][\A index \in CallIndices :
          (RemoveOrderCall(index) /\ OutOfBounds(index)) =>
              /\ displayOrders' = displayOrders
              /\ loadOrders(stored') = loadOrders(stored)]_vars

\* C5
SubmittedBy(t) == {i \in 1..Len(submitted) : submitted[i].tab = t}
BothSubmitted == SubmittedBy(1) # {} /\ SubmittedBy(2) # {}
SubmittedOrders == [i \in 1..Len(submitted) |-> submitted[i].order]

\* how often the order o is in the store before and after the step
Before(o) == Count(o, StoreOrders)
After(o) == Count(o, loadOrders(stored').a)

\* C5: last saveAll wins.  The write of a submit leaves what its callback read
\* and its own order, so that an order the other page saved since that read
\* (one the store holds more often than the callback read it) is lost, with
\* both submits succeeding; the store always holds submitted orders in the
\* order of their submits, ending with the one submitted last.
C5_LastSaveWins ==
    /\ [](submitted # <<>> =>
            /\ Remains(StoreOrders, SubmittedOrders)
            /\ StoreOrders # <<>>
            /\ StoreOrders[Len(StoreOrders)] = SubmittedOrders[Len(submitted)])
    /\ [][\A t \in Tabs :
            SubmitWrite(t) =>
                /\ loadOrders(stored').a = Append(running[t].a, currentOrder[t])
                /\ \A o \in Elems(StoreOrders) \ {currentOrder[t]} :
                      Before(o) > Count(o, running[t].a) => After(o) < Before(o)
                /\ Len(submitted') = Len(submitted) + 1]_vars

\* both pages have submitted, each with success, page 1 having read the store
\* before page 2 wrote it: the store lacks the order of page 2
C5_Witness ==
    /\ BothSubmitted
    /\ Len(submitted) = 2
    /\ submitted[1].tab = 2
    /\ submitted[2].tab = 1
    /\ StoreOrders = <<submitted[2].order>>
    /\ currentOrder = [t \in Tabs |-> Null]

\* C6: a submit with no line (or no active order) changes neither the store
\* nor the session.
C6_EmptySubmitFails ==
    [][\A t \in Tabs :
          (SubmitRead(t) /\ NoLines(currentOrder[t])) =>
              /\ stored' = stored
              /\ currentOrder' = currentOrder
              /\ submitted' = submitted
              /\ running' = running]_vars

\* a submit has just failed on an active order without lines, the store
\* holding an order
C6_Witness ==
    /\ last = "submit"
    /\ orderMessage[1] = NoItemsMessage
    /\ currentOrder[1] # Null
    /\ currentOrder[1].items = <<>>
    /\ Len(StoreOrders) >= 1

\* the indices of `indices` that are in range of the display's orders
InRange(indices) ==
    {indices[k] : k \in 1..Len(indices)} \cap RenderedIndices

QtyOf(o, name) == IF Has(o.items, name) THEN Get(o.items, name).quantity ELSE 0

RECURSIVE TotalOver(_, _)
TotalOver(I, name) ==
    IF I = {} THEN 0
    ELSE LET i == CHOOSE x \in I : TRUE IN
         QtyOf(displayOrders.a[i + 1], name) + TotalOver(I \ {i}, name)

\* the mapping names exactly the items of the selected orders that are in
\* range, each once and with the sum of its quantities over those orders
SumsSelected(sum, indices) ==
    /\ Keys(sum) = UNION {Keys(displayOrders.a[i + 1].items) : i \in InRange(indices)}
    /\ Cardinality(Keys(sum)) = Len(sum)
    /\ \A e \in Elems(sum) :
          e = [name |-> e.name, total |-> TotalOver(InRange(indices), e.name)]

\* C7: with any selection, buildBatchSummary returns a mapping, which names
\* exactly the items of the selected orders that are in range, each with the
\* sum of its quantities over those orders; an index out of range adds nothing.
C7_AggregateSums ==
    \A indices \in Selections :
        /\ ~buildBatchSummary(displayOrders, indices).threw
        /\ SumsSelected(buildBatchSummary(displayOrders, indices).summary, indices)

\* C8: a batch summary leaves the display's orders and the store as they were,
\* and one with the selection of the summary built in the step before it
\* gives the mapping that one gave.
BatchLeaves(indices) ==
    /\ displayOrders' = displayOrders
    /\ stored' = stored
    /\ (last \in {"batch", "buildBatchSummary"} /\ selection = indices) =>
           summary' = summary
\* missing or its text is no JSON.
Unreadable(st) == ~Truthy(st) \/ ~JSONparse(st.text).ok

C9_LoadAllReturnsSequence ==
    /\ last = "loadOrders" =>
          /\ IsArray(orders[1])
          /\ Unreadable(stored) => orders[1] = Array(<<>>)
    /\ last = "displayLoadOrders" =>
          /\ IsArray(displayOrders)
          /\ Unreadable(stored) => displayOrders = Array(<<>>)

\* C10: what a page reads from the store is the same after saveOrders of what
\* loadOrders read.
C10_SaveLoadRoundTrip ==
    /\ loadOrders(saveOrders(loadOrders(stored))) = loadOrders(stored)
    /\ displayLoadOrders(displaySaveOrders(displayLoadOrders(stored)))
          = displayLoadOrders(stored)

\* two orders were loaded and saved back
C10_Witness ==
    /\ last = "saveOrders"
    /\ IsArray(orders[1])
    /\ Len(orders[1].a) = 2
    /\ stored = saveOrders(orders[1])
    /\ loadOrders(stored) = orders[1]

\* `id` is `input` without the white space at its two ends
TrimsTo(input, id) ==
    /\ id # <<>> => ~IsSpace(id[1]) /\ ~IsSpace(id[Len(id)])
    /\ \E i \in 0..Len(input) : \E j \in i..Len(input) :
          /\ SubSeq(input, i + 1, j) = id
          /\ \A k \in (1..i) \cup ((j + 1)..Len(input)) : IsSpace(input[k])

\* C11: start with an id that trims to empty leaves the session as it is;
\* otherwise the session holds a new order with the trimmed id and no lines,
\* whatever order was in progress, and nothing is written to the store.
C11_StartReplacesSession ==
    [][\A input \in ReservationInputs :
          ReservationSubmit(1, input) =>
              /\ stored' = stored
              /\ submitted' = submitted
              /\ IF TrimsTo(input, <<>>)
                 THEN currentOrder' = currentOrder
                 ELSE /\ currentOrder'[1] # Null
                      /\ TrimsTo(input, currentOrder'[1].id)
                      /\ currentOrder'[1].items = <<>>]_vars

\* " R2 " has started an order while the store holds a submitted order
C11_Witness ==
    /\ last = "start"
    /\ currentOrder[1] = Order(R2, <<>>, Now)
    /\ Len(StoreOrders) >= 1

\* C12: addItem without active order does nothing; a name that is not in items
\* is inserted with quantity 1 and the given category; a name that is in items
\* gets quantity + 1 and keeps its category; the other lines stay.
WithLine(entries, e) ==
    [i \in 1..Len(entries) |-> IF entries[i].name = e.name THEN e ELSE entries[i]]

C12_AddItem ==
    [][\A btn \in ItemsButtons :
          MenuClick(1, btn) =>
              LET cur == currentOrder[1] IN
              IF cur = Null THEN currentOrder'[1] = Null
              ELSE /\ currentOrder'[1] # Null
                   /\ currentOrder'[1].id = cur.id
                   /\ IF btn.name \notin Keys(cur.items)
                      THEN currentOrder'[1].items =
                              Append(cur.items, Entry(btn.name, btn.category, 1))
                      ELSE \E l \in Lines(cur) :
                              /\ l.name = btn.name
                              /\ currentOrder'[1].items =
                                    WithLine(cur.items,
                                             Entry(l.name, l.category, l.quantity + 1))]_vars

\* C13: adjustQuantity without active order or with a name that is not in items
\* does nothing; otherwise the line gets quantity + delta when that is > 0 and is
\* removed when it is <= 0; the other lines, the id and the store stay.
C13_AdjustQuantity ==
    [][\A name \in ItemNames : \A delta \in Deltas :
          UpdateItemQuantityCall(1, name, delta) =>
              LET cur == currentOrder[1] IN
              /\ stored' = stored
              /\ IF cur = Null \/ name \notin Keys(cur.items)
                 THEN currentOrder'[1] = cur
                 ELSE /\ currentOrder'[1] # Null
                      /\ currentOrder'[1].id = cur.id
                      /\ \E l \in Lines(cur) :
                            /\ l.name = name
                            /\ currentOrder'[1].items =
                                  IF l.quantity + delta > 0
                                  THEN WithLine(cur.items,
                                                Entry(name, l.category, l.quantity + delta))
                                  ELSE SelectSeq(cur.items, LAMBDA e : e # l)]_vars

\* updateItemQuantity has left Soda as the only line, at quantity 2
C13_Witness ==
    /\ last = "updateItemQuantity"
    /\ currentOrder[1] # Null
    /\ currentOrder[1].items = <<Entry(Soda, Uncategorized, 2)>>

\* C14: clear on an active order leaves the order with its id and createdAt and
\* without lines, and the store as it is; the session stays active, so that a
\* line added next is submitted under that id; without active order it does
\* nothing.
C14_ClearKeepsSession ==
    [][ClearClick(1) =>
          LET cur == currentOrder[1] IN
          /\ stored' = stored
          /\ submitted' = submitted
          /\ IF cur = Null THEN currentOrder'[1] = Null
             ELSE /\ currentOrder'[1] = Order(cur.id, <<>>, cur.createdAt)
                  /\ LET o == addItemToOrder(currentOrder'[1], Burger, Dishes) IN
                     /\ ~NoLines(o)
                     /\ o.id = cur.id
                     /\ pushCurrentOrder(stored', orders'[1], o).orders
                           = Array(Append(StoreOrders, o))]_vars

\* clear has left an active order R1 without lines, the store holding an order
C14_Witness ==
    /\ last = "clear"
    /\ currentOrder[1] = Order(R1, <<>>, Now)
    /\ Len(StoreOrders) >= 1

\* C15: refresh leaves the store as it is and puts its content into the
\* display's orders: the empty array when the key is missing or its text is no
\* JSON, otherwise the array whose JSON text the key holds, with every order
\* that is in the store.
C15_RefreshReadsStore ==
    [][RefreshClick =>
          /\ stored' = stored
          /\ IsArray(displayOrders')
          /\ IF stored \in {Missing, Text(Malformed)}
             THEN displayOrders'.a = <<>>
             ELSE Text(JSONstringify(displayOrders')) = stored
          /\ \A i \in 1..Len(submitted) :
                Count(submitted[i].order, StoreOrders)
                   = Count(submitted[i].order, displayOrders'.a)]_vars

\* refresh has read the two orders submitted since the display was loaded
C15_Witness ==
    /\ last = "refresh"
    /\ Len(submitted) = 2
    /\ displayOrders = Array(SubmittedOrders)
    /\ stored = Text(JSONstringify(displayOrders))

\* C20: complete with an index in bounds takes exactly the order at that
\* position out of the display's orders, the others keeping their order, and
\* writes the result to the store: the store then holds the display's orders.
Without(a, index) ==
    [j \in 1..(Len(a) - 1) |-> IF j <= index THEN a[j] ELSE a[j + 1]]

C20_CompleteRemovesAndSaves ==
    [][\A index \in 0..(MaxStored - 1) :
          CompleteClick(index) =>
              /\ displayOrders' = Array(Without(displayOrders.a, index))
              /\ stored' = Text(JSONstringify(displayOrders'))
              /\ loadOrders(stored') = displayOrders']_vars

\* one of three orders has been completed: the display is left with two
\* different orders, which the store holds
C20_Witness ==
    /\ last = "complete"
    /\ Len(displayOrders.a) = MaxStored - 1
    /\ displayOrders.a[1] # displayOrders.a[2]
    /\ stored = Text(JSONstringify(displayOrders))

\* the text of `line` between the white space at its two ends
Trimmed(line) ==
    CHOOSE id \in {SubSeq(line, i, j) : i \in 1..(Len(line) + 1), j \in 0..Len(line)} :
        TrimsTo(line, id)

\* the categories of a list of menu items
Categories(list) == {list[i].category : i \in 1..Len(list)}

\* C16: whatever fetch() and response.text() answer, a rejection included,
\* load() ends with an item list (its catch takes every rejection, so that the
\* load has no other outcome); the list is never empty, and when no menu text
\* was read (the fetch or response.text() was rejected) and no custom items
\* are persisted it is the 8 sample items of 3 categories.
NoCustomItems ==
    storedCustom \in {Missing, Text(<<>>), Text(Malformed), Text(<<P("["), P("]")>>)}

C16_LoadFallback ==
    [][pending[1] # Null =>
          \A answer \in Answers(pending[1]) :
              PageLoadWith(1, answer) =>
                  /\ pending'[1] = Null
                  /\ Len(items'[1]) > 0
                  /\ (~answer.ok /\ NoCustomItems) =>
                        /\ items'[1] = FallbackItems
                        /\ Len(items'[1]) = 8
                        /\ Cardinality(Categories(items'[1])) = 3]_vars

\* a page has loaded with response.text() rejected and no key "customItems"
C16_Witness ==
    /\ last = "pageLoadCaught"
    /\ menuFile.ok
    /\ storedCustom = Missing
    /\ items[1] = FallbackItems

\* the lines of the menu file of this state
FileLines == IF menuFile.ok THEN Elems(splitLines(menuFile.text)) ELSE {}

\* C17: parseLine gives null exactly for a line that is empty or starts with #
\* once trimmed, and otherwise a menu item whose name is not empty.
C17_ParseLineTotal ==
    \A line \in FileLines :
        LET t == Trimmed(line) IN
        /\ parseLine(line) = Null <=> (t = <<>> \/ t[1] = "#")
        /\ parseLine(line) # Null => parseLine(line).name # <<>>

\* C18: the rule of parseLine, written on the positions of the separators.
Separators == {"|", ",", ";", "-"}
SepAt(t) == {k \in 1..Len(t) : t[k] \in Separators}
FirstOf(S0) == CHOOSE k \in S0 : \A j \in S0 : k <= j

\* `t` with every run of separators made one space
RECURSIVE Squeezed(_, _)
Squeezed(t, i) ==
    IF i > Len(t) THEN <<>>
    ELSE IF i \notin SepAt(t) THEN <<t[i]>> \o Squeezed(t, i + 1)
    ELSE IF i - 1 \in SepAt(t) THEN Squeezed(t, i + 1)
    ELSE <<" ">> \o Squeezed(t, i + 1)

Rule(line) ==
    LET t == Trimmed(line) IN
    IF SepAt(t) = {} THEN [category |-> Uncategorized, name |-> t]
    ELSE LET k == FirstOf(SepAt(t))
             first == Trimmed(SubSeq(t, 1, k - 1))
             after == {i \in (k + 1)..Len(t) : i \notin SepAt(t)}
             rest == IF after = {} THEN <<>> ELSE SubSeq(t, FirstOf(after), Len(t))
             name == Trimmed(Squeezed(rest, 1))
         IN IF name = <<>>
            THEN [category |-> Uncategorized, name |-> first]
            ELSE [category |-> first, name |-> name]

C18_ParseLineRule ==
    /\ \A line \in FileLines : parseLine(line) # Null => parseLine(line) = Rule(line)
    /\ parseLine(CatDash) = [category |-> Uncategorized, name |-> Cat]
    /\ parseLine(DrinksSoda) = [category |-> Drinks, name |-> Soda]

\* a page has loaded the menu file "cat-"
C18_Witness ==
    /\ last = "pageLoad"
    /\ menuFile = Response(CatDash)
    /\ storedCustom = Missing
    /\ items[1] = <<[category |-> Uncategorized, name |-> Cat]>>

\* C19: addCustomMenuItem with an argument that trims to empty does nothing;
\* otherwise the item goes to the end of the page's item list and of the
\* persisted custom items; every load after it gives the parsed menu items
\* followed by all the custom items added so far, in the order added.
CustomContent(st) == loadItems(Rejected, st).customItems
ParsedMenu(file) == IF file = BurgerFile THEN <<[category |-> Dishes, name |-> Burger]>> ELSE <<>>

C19_CustomItemsKept ==
    [][\A t \in Tabs :
          /\ \A c \in CategoryInputs : \A n \in NameInputs :
                AddItemClick(t, c, n) =>
                    IF Trimmed(c) = <<>> \/ Trimmed(n) = <<>>
                    THEN items' = items /\ storedCustom' = storedCustom
                    ELSE LET it == [category |-> Trimmed(c), name |-> Trimmed(n)] IN
                         /\ items'[t] = Append(items[t], it)
                         /\ CustomContent(storedCustom')
                               = Append(CustomContent(storedCustom), it)
          /\ pending[t] # Null =>
                \A answer \in Answers(pending[t]) :
                    (PageLoadWith(t, answer) /\ added # <<>>) =>
                        items'[t] = ParsedMenu(answer) \o added]_vars

\* C21 as claimed: with one ordering page and one display, an order that
\* completion took out of the store never comes back: the number of times an
\* order is in the store grows only in the step that saves its own submit, by
\* one, and never exceeds the number of times the order was submitted.  (A
\* step that leaves the stored text and is not the write of a submit leaves
\* these numbers.)
C21_CompletedStaysOut ==
    [][LET Grows(o, before, after) ==
               /\ after > before =>
                     /\ SubmitWrite(1)
                     /\ currentOrder[1] = o
                     /\ after = before + 1
               /\ after <= Count(o, SubmittedOrders')
           Check(was, now) ==
               \A o \in Elems(SubmittedOrders') :
                  Grows(o, Count(o, was), Count(o, now))
       IN  \/ stored' = stored /\ running' = running
           \/ Check(StoreOrders, loadOrders(stored').a)]_vars

\* C21 as amended: an order that completion took out of the store comes back
\* only by the write of a submit whose read came before the completion: the
\* number of times an order is in the store grows only at the write of a
\* submit, which leaves each order as often as the callback read it, and its
\* own order once more, whatever the page's array held before the read; no
\* order is in the store more often than it was submitted.
C21_ReadDecides ==
    [][LET Grows(o, before, after) ==
               /\ after > before => SubmitWrite(1)
               /\ SubmitWrite(1) =>
                     after = Count(o, running[1].a)
                             + (IF currentOrder[1] = o THEN 1 ELSE 0)
               /\ after <= Count(o, SubmittedOrders')
           Check(was, now) ==
               \A o \in Elems(SubmittedOrders') :
                  Grows(o, Count(o, was), Count(o, now))
       IN  \/ stored' = stored /\ running' = running
           \/ Check(StoreOrders, loadOrders(stored').a)]_vars

\* a second order has been submitted after the first was completed, by a page
\* that has not been reloaded: the store holds the second order only
C21_Witness ==
    /\ last = "submit"
    /\ Len(submitted) = 2
    /\ submitted[1].order # submitted[2].order
    /\ StoreOrders = <<submitted[2].order>>
    /\ orders[1] = Array(StoreOrders)

\* C22 as claimed: the orders in the store change only by a submit appending
\* the current order or by a completion taking whole orders out; every order in
\* the store is as it was when it was submitted, whatever the session and the
\* display do before and after.  (A step that leaves the stored text leaves
\* the orders in it.)
C22_StoredOrdersImmutable ==
    [][\/ stored' = stored
       \/ LET Check(was, now) ==
                  /\ \/ now = was
                     \/ /\ SubmitWrite(1)
                        /\ now = Append(was, currentOrder[1])
                     \/ /\ \E index \in 0..MaxSubmits : CompleteClick(index)
                        /\ Remains(now, was)
                  /\ Elems(now) \subseteq Elems(SubmittedOrders')
          IN  Check(StoreOrders, loadOrders(stored').a)]_vars

\* C22 as amended: the write of a submit leaves the orders its callback read
\* and the current order after them, which puts back the orders a completion
\* took out between the read and the write; a completion takes whole orders
\* out; nothing else changes the orders in the store, and every order in the
\* store is as it was when it was submitted.
C22_WholeOrders ==
    [][\/ stored' = stored
       \/ LET Check(was, now) ==
                  /\ \/ now = was
                     \/ /\ SubmitWrite(1)
                        /\ now = Append(running[1].a, currentOrder[1])
                        /\ Remains(was, running[1].a)
                     \/ /\ \E index \in 0..MaxSubmits : CompleteClick(index)
                        /\ Remains(now, was)
                  /\ Elems(now) \subseteq Elems(SubmittedOrders')
          IN  Check(StoreOrders, loadOrders(stored').a)]_vars

\* R1 was submitted with two burgers; the page has started R1 again and added
\* one burger; the stored order still has two
C22_Witness ==
    /\ last = "addItem"
    /\ currentOrder[1] = Order(R1, <<Entry(Burger, Dishes, 1)>>, Now)
    /\ StoreOrders = <<Order(R1, BurgerTwice, Now)>>

====
